---- MODULE Spec2Model ----
(***************************************************************************)
(* Model of the PhonePe dashboard script (src/st2.py): the sidebar filters,*)
(* the query composer add_filters, and the render pass that executes the   *)
(* report catalogue top to bottom.                                         *)
(*                                                                         *)
(* Text is modelled as a sequence of one-character strings, so that        *)
(* concatenation, quoting and containment are computed and not assumed.    *)
(***************************************************************************)
EXTENDS Integers, Sequences, FiniteSets, TLC

VARIABLES
    state,       \* sidebar text input (src/st2.py:21), "" when left empty
    year,        \* sidebar selectbox (src/st2.py:22), 0 stands for the "" option
    quarter,     \* sidebar selectbox (src/st2.py:23), 0 stands for the "" option
    conditions,  \* the list object add_filters built on its latest call
    calls,       \* log of the add_filters calls made so far
    pc,          \* position of the script in the render pass
    env,         \* module-level Python variables of the report blocks
    inflight,    \* reports whose pd.read_sql call has not returned yet
    issued,      \* log of the queries handed to pd.read_sql, in issue order
    rendered     \* sections written to the page, in order

vars == <<state, year, quarter, conditions, calls, pc, env, inflight, issued, rendered>>

filterVars == <<state, year, quarter>>
composeVars == <<conditions, calls>>
renderVars == <<pc, env, inflight, issued, rendered>>

(* Report catalogue: the SQL text of every report, character by character, *)
(* in the order the script executes them (src/st2.py:41-247).              *)
\* base_query, src/st2.py:43-43
base_query ==
    <<"S", "E", "L", "E", "C", "T", " ", "s", "t", "a", "t", "e", ",", " ", "S", "U",
      "M", "(", "t", "r", "a", "n", "s", "a", "c", "t", "i", "o", "n", "_", "a", "m",
      "o", "u", "n", "t", ")", " ", "A", "S", " ", "t", "o", "t", "a", "l", "_", "a",
      "m", "o", "u", "n", "t", " ", "F", "R", "O", "M", " ", "a", "g", "g", "r", "e",
      "g", "a", "t", "e", "d", "_", "t", "r", "a", "n", "s", "a", "c", "t", "i", "o",
      "n", " ", "G", "R", "O", "U", "P", " ", "B", "Y", " ", "s", "t", "a", "t", "e",
      " ", "O", "R", "D", "E", "R", " ", "B", "Y", " ", "t", "o", "t", "a", "l", "_",
      "a", "m", "o", "u", "n", "t", " ", "D", "E", "S", "C", " ", "L", "I", "M", "I",
      "T", " ", "1", "0">>

\* surge_query, src/st2.py:54-64
surge_query ==
    <<"\n", " ", " ", " ", " ", "S", "E", "L", "E", "C", "T", " ", "s", "t", "a", "t",
      "e", ",", " ", "y", "e", "a", "r", ",", "\n", " ", " ", " ", " ", " ", " ", " ",
      " ", "S", "U", "M", "(", "C", "A", "S", "E", " ", "W", "H", "E", "N", " ", "q",
      "u", "a", "r", "t", "e", "r", " ", "=", " ", "1", " ", "T", "H", "E", "N", " ",
      "t", "r", "a", "n", "s", "a", "c", "t", "i", "o", "n", "_", "a", "m", "o", "u",
      "n", "t", " ", "E", "L", "S", "E", " ", "0", " ", "E", "N", "D", ")", " ", "A",
      "S", " ", "Q", "1", ",", "\n", " ", " ", " ", " ", " ", " ", " ", " ", "S", "U",
      "M", "(", "C", "A", "S", "E", " ", "W", "H", "E", "N", " ", "q", "u", "a", "r",
      "t", "e", "r", " ", "=", " ", "4", " ", "T", "H", "E", "N", " ", "t", "r", "a",
      "n", "s", "a", "c", "t", "i", "o", "n", "_", "a", "m", "o", "u", "n", "t", " ",
      "E", "L", "S", "E", " ", "0", " ", "E", "N", "D", ")", " ", "A", "S", " ", "Q",
      "4", ",", "\n", " ", " ", " ", " ", " ", " ", " ", " ", "(", "S", "U", "M", "(",
      "C", "A", "S", "E", " ", "W", "H", "E", "N", " ", "q", "u", "a", "r", "t", "e",
      "r", " ", "=", " ", "4", " ", "T", "H", "E", "N", " ", "t", "r", "a", "n", "s",
      "a", "c", "t", "i", "o", "n", "_", "a", "m", "o", "u", "n", "t", " ", "E", "L",
      "S", "E", " ", "0", " ", "E", "N", "D", ")", " ", "-", " ", "S", "U", "M", "(",
      "C", "A", "S", "E", " ", "W", "H", "E", "N", " ", "q", "u", "a", "r", "t", "e",
      "r", " ", "=", " ", "1", " ", "T", "H", "E", "N", " ", "t", "r", "a", "n", "s",
      "a", "c", "t", "i", "o", "n", "_", "a", "m", "o", "u", "n", "t", " ", "E", "L",
      "S", "E", " ", "0", " ", "E", "N", "D", ")", ")", " ", "A", "S", " ", "s", "u",
      "r", "g", "e", "\n", " ", " ", " ", " ", "F", "R", "O", "M", " ", "a", "g", "g",
      "r", "e", "g", "a", "t", "e", "d", "_", "t", "r", "a", "n", "s", "a", "c", "t",
      "i", "o", "n", "\n", " ", " ", " ", " ", "G", "R", "O", "U", "P", " ", "B", "Y",
      " ", "s", "t", "a", "t", "e", ",", " ", "y", "e", "a", "r", "\n", " ", " ", " ",
      " ", "H", "A", "V", "I", "N", "G", " ", "Q", "1", " ", ">", " ", "0", " ", "A",
      "N", "D", " ", "Q", "4", " ", ">", " ", "0", "\n", " ", " ", " ", " ", "O", "R",
      "D", "E", "R", " ", "B", "Y", " ", "s", "u", "r", "g", "e", " ", "D", "E", "S",
      "C", "\n", " ", " ", " ", " ", "L", "I", "M", "I", "T", " ", "1", "0", ";", "\n",
      " ", " ", " ", " ">>

\* loyalty_query, src/st2.py:71-82
loyalty_query ==
    <<"\n", " ", " ", " ", " ", "S", "E", "L", "E", "C", "T", " ", "s", "t", "a", "t",
      "e", ",", " ", "b", "r", "a", "n", "d", ",", " ", "b", "r", "a", "n", "d", "_",
      "c", "o", "u", "n", "t", ",", "\n", " ", " ", " ", " ", " ", " ", " ", " ", " ",
      " ", " ", "R", "O", "U", "N", "D", "(", "(", "b", "r", "a", "n", "d", "_", "c",
      "o", "u", "n", "t", " ", "/", " ", "t", "o", "t", "a", "l", ")", " ", "*", " ",
      "1", "0", "0", ",", " ", "2", ")", " ", "A", "S", " ", "l", "o", "y", "a", "l",
      "t", "y", "_", "p", "c", "t", "\n", " ", " ", " ", " ", "F", "R", "O", "M", " ",
      "(", "\n", " ", " ", " ", " ", " ", " ", " ", " ", "S", "E", "L", "E", "C", "T",
      " ", "s", "t", "a", "t", "e", ",", " ", "b", "r", "a", "n", "d", ",", " ", "b",
      "r", "a", "n", "d", "_", "c", "o", "u", "n", "t", ",", "\n", " ", " ", " ", " ",
      " ", " ", " ", " ", " ", " ", " ", " ", " ", " ", " ", "S", "U", "M", "(", "b",
      "r", "a", "n", "d", "_", "c", "o", "u", "n", "t", ")", " ", "O", "V", "E", "R",
      " ", "(", "P", "A", "R", "T", "I", "T", "I", "O", "N", " ", "B", "Y", " ", "s",
      "t", "a", "t", "e", ")", " ", "A", "S", " ", "t", "o", "t", "a", "l", ",", "\n",
      " ", " ", " ", " ", " ", " ", " ", " ", " ", " ", " ", " ", " ", " ", " ", "R",
      "O", "W", "_", "N", "U", "M", "B", "E", "R", "(", ")", " ", "O", "V", "E", "R",
      " ", "(", "P", "A", "R", "T", "I", "T", "I", "O", "N", " ", "B", "Y", " ", "s",
      "t", "a", "t", "e", " ", "O", "R", "D", "E", "R", " ", "B", "Y", " ", "b", "r",
      "a", "n", "d", "_", "c", "o", "u", "n", "t", " ", "D", "E", "S", "C", ")", " ",
      "A", "S", " ", "r", "n", "\n", " ", " ", " ", " ", " ", " ", " ", " ", "F", "R",
      "O", "M", " ", "a", "g", "g", "r", "e", "g", "a", "t", "e", "d", "_", "u", "s",
      "e", "r", "\n", " ", " ", " ", " ", ")", " ", "A", "S", " ", "r", "a", "n", "k",
      "e", "d", "\n", " ", " ", " ", " ", "W", "H", "E", "R", "E", " ", "r", "n", " ",
      "=", " ", "1", "\n", " ", " ", " ", " ", "O", "R", "D", "E", "R", " ", "B", "Y",
      " ", "l", "o", "y", "a", "l", "t", "y", "_", "p", "c", "t", " ", "D", "E", "S",
      "C", "\n", " ", " ", " ", " ">>

\* drop_query, src/st2.py:93-101
drop_query ==
    <<"\n", " ", " ", " ", " ", "S", "E", "L", "E", "C", "T", " ", "s", "t", "a", "t",
      "e", ",", " ", "S", "U", "M", "(", "r", "e", "g", "i", "s", "t", "e", "r", "e",
      "d", "_", "u", "s", "e", "r", "s", ")", " ", "A", "S", " ", "t", "o", "t", "a",
      "l", "_", "u", "s", "e", "r", "s", ",", " ", "S", "U", "M", "(", "a", "p", "p",
      "_", "o", "p", "e", "n", "s", ")", " ", "A", "S", " ", "t", "o", "t", "a", "l",
      "_", "o", "p", "e", "n", "s", ",", "\n", " ", " ", " ", " ", " ", " ", " ", " ",
      " ", " ", " ", "R", "O", "U", "N", "D", "(", "S", "U", "M", "(", "a", "p", "p",
      "_", "o", "p", "e", "n", "s", ")", "/", "N", "U", "L", "L", "I", "F", "(", "S",
      "U", "M", "(", "r", "e", "g", "i", "s", "t", "e", "r", "e", "d", "_", "u", "s",
      "e", "r", "s", ")", ",", " ", "0", ")", ",", " ", "2", ")", " ", "A", "S", " ",
      "u", "s", "a", "g", "e", "_", "r", "a", "t", "i", "o", "\n", " ", " ", " ", " ",
      "F", "R", "O", "M", " ", "a", "g", "g", "r", "e", "g", "a", "t", "e", "d", "_",
      "u", "s", "e", "r", "\n", " ", " ", " ", " ", "G", "R", "O", "U", "P", " ", "B",
      "Y", " ", "s", "t", "a", "t", "e", "\n", " ", " ", " ", " ", "H", "A", "V", "I",
      "N", "G", " ", "u", "s", "a", "g", "e", "_", "r", "a", "t", "i", "o", " ", "<",
      " ", "0", ".", "5", "\n", " ", " ", " ", " ", "O", "R", "D", "E", "R", " ", "B",
      "Y", " ", "u", "s", "a", "g", "e", "_", "r", "a", "t", "i", "o", " ", "A", "S",
      "C", "\n", " ", " ", " ", " ", "L", "I", "M", "I", "T", " ", "1", "0", "\n", " ",
      " ", " ", " ">>

\* insurance_eff_query, src/st2.py:108-116
insurance_eff_query ==
    <<"\n", " ", " ", " ", " ", "S", "E", "L", "E", "C", "T", " ", "s", "t", "a", "t",
      "e", ",", " ", "S", "U", "M", "(", "a", "m", "o", "u", "n", "t", ")", " ", "A",
      "S", " ", "t", "o", "t", "a", "l", "_", "i", "n", "s", "u", "r", "a", "n", "c",
      "e", ",", " ", "S", "U", "M", "(", "a", "p", "p", "_", "o", "p", "e", "n", "s",
      ")", " ", "A", "S", " ", "a", "p", "p", "_", "o", "p", "e", "n", "s", ",", "\n",
      " ", " ", " ", " ", " ", " ", " ", " ", " ", " ", " ", "R", "O", "U", "N", "D",
      "(", "S", "U", "M", "(", "a", "m", "o", "u", "n", "t", ")", "/", "N", "U", "L",
      "L", "I", "F", "(", "S", "U", "M", "(", "a", "p", "p", "_", "o", "p", "e", "n",
      "s", ")", ",", " ", "0", ")", ",", " ", "2", ")", " ", "A", "S", " ", "e", "f",
      "f", "i", "c", "i", "e", "n", "c", "y", "\n", " ", " ", " ", " ", "F", "R", "O",
      "M", " ", "m", "a", "p", "_", "i", "n", "s", "u", "r", "a", "n", "c", "e", "\n",
      " ", " ", " ", " ", "J", "O", "I", "N", " ", "m", "a", "p", "_", "u", "s", "e",
      "r", " ", "U", "S", "I", "N", "G", "(", "s", "t", "a", "t", "e", ",", " ", "y",
      "e", "a", "r", ",", " ", "q", "u", "a", "r", "t", "e", "r", ",", " ", "d", "i",
      "s", "t", "r", "i", "c", "t", ")", "\n", " ", " ", " ", " ", "G", "R", "O", "U",
      "P", " ", "B", "Y", " ", "s", "t", "a", "t", "e", "\n", " ", " ", " ", " ", "O",
      "R", "D", "E", "R", " ", "B", "Y", " ", "e", "f", "f", "i", "c", "i", "e", "n",
      "c", "y", " ", "D", "E", "S", "C", "\n", " ", " ", " ", " ", "L", "I", "M", "I",
      "T", " ", "1", "0", ";", "\n", " ", " ", " ", " ">>

\* pin_query, src/st2.py:129-136
pin_query ==
    <<"\n", " ", " ", " ", " ", "S", "E", "L", "E", "C", "T", " ", "p", "i", "n", "c",
      "o", "d", "e", ",", " ", "S", "U", "M", "(", "a", "m", "o", "u", "n", "t", ")",
      " ", "A", "S", " ", "t", "o", "t", "a", "l", "_", "v", "a", "l", "u", "e", "\n",
      " ", " ", " ", " ", "F", "R", "O", "M", " ", "t", "o", "p", "_", "m", "a", "p",
      "\n", " ", " ", " ", " ", "W", "H", "E", "R", "E", " ", "p", "i", "n", "c", "o",
      "d", "e", " ", "I", "S", " ", "N", "O", "T", " ", "N", "U", "L", "L", "\n", " ",
      " ", " ", " ", "G", "R", "O", "U", "P", " ", "B", "Y", " ", "p", "i", "n", "c",
      "o", "d", "e", "\n", " ", " ", " ", " ", "O", "R", "D", "E", "R", " ", "B", "Y",
      " ", "t", "o", "t", "a", "l", "_", "v", "a", "l", "u", "e", " ", "D", "E", "S",
      "C", "\n", " ", " ", " ", " ", "L", "I", "M", "I", "T", " ", "1", "0", ";", "\n",
      " ", " ", " ", " ">>

\* diversity_query, src/st2.py:150-156
diversity_query ==
    <<"\n", " ", " ", " ", " ", "S", "E", "L", "E", "C", "T", " ", "s", "t", "a", "t",
      "e", ",", " ", "C", "O", "U", "N", "T", "(", "D", "I", "S", "T", "I", "N", "C",
      "T", " ", "t", "r", "a", "n", "s", "a", "c", "t", "i", "o", "n", "_", "t", "y",
      "p", "e", ")", " ", "A", "S", " ", "v", "a", "r", "i", "e", "t", "y", "\n", " ",
      " ", " ", " ", "F", "R", "O", "M", " ", "a", "g", "g", "r", "e", "g", "a", "t",
      "e", "d", "_", "t", "r", "a", "n", "s", "a", "c", "t", "i", "o", "n", "\n", " ",
      " ", " ", " ", "G", "R", "O", "U", "P", " ", "B", "Y", " ", "s", "t", "a", "t",
      "e", "\n", " ", " ", " ", " ", "O", "R", "D", "E", "R", " ", "B", "Y", " ", "v",
      "a", "r", "i", "e", "t", "y", " ", "D", "E", "S", "C", "\n", " ", " ", " ", " ",
      "L", "I", "M", "I", "T", " ", "1", "0", ";", "\n", " ", " ", " ", " ">>

\* high_insurance_query, src/st2.py:167-176
high_insurance_query ==
    <<"\n", " ", " ", " ", " ", "S", "E", "L", "E", "C", "T", " ", "i", ".", "s", "t",
      "a", "t", "e", ",", " ", "i", ".", "d", "i", "s", "t", "r", "i", "c", "t", ",",
      " ", "S", "U", "M", "(", "i", ".", "a", "m", "o", "u", "n", "t", ")", " ", "A",
      "S", " ", "i", "n", "s", "u", "r", "a", "n", "c", "e", "_", "a", "m", "t", ",",
      " ", "S", "U", "M", "(", "u", ".", "r", "e", "g", "i", "s", "t", "e", "r", "e",
      "d", "_", "u", "s", "e", "r", "s", ")", " ", "A", "S", " ", "u", "s", "e", "r",
      "s", ",", "\n", " ", " ", " ", " ", " ", " ", " ", " ", " ", " ", " ", "R", "O",
      "U", "N", "D", "(", "S", "U", "M", "(", "i", ".", "a", "m", "o", "u", "n", "t",
      ")", "/", "N", "U", "L", "L", "I", "F", "(", "S", "U", "M", "(", "u", ".", "r",
      "e", "g", "i", "s", "t", "e", "r", "e", "d", "_", "u", "s", "e", "r", "s", ")",
      ",", " ", "0", ")", ",", " ", "2", ")", " ", "A", "S", " ", "p", "r", "e", "m",
      "i", "u", "m", "_", "i", "n", "d", "e", "x", "\n", " ", " ", " ", " ", "F", "R",
      "O", "M", " ", "m", "a", "p", "_", "i", "n", "s", "u", "r", "a", "n", "c", "e",
      " ", "i", "\n", " ", " ", " ", " ", "J", "O", "I", "N", " ", "m", "a", "p", "_",
      "u", "s", "e", "r", " ", "u", " ", "O", "N", " ", "i", ".", "s", "t", "a", "t",
      "e", " ", "=", " ", "u", ".", "s", "t", "a", "t", "e", " ", "A", "N", "D", " ",
      "i", ".", "d", "i", "s", "t", "r", "i", "c", "t", " ", "=", " ", "u", ".", "d",
      "i", "s", "t", "r", "i", "c", "t", " ", "A", "N", "D", " ", "i", ".", "y", "e",
      "a", "r", " ", "=", " ", "u", ".", "y", "e", "a", "r", " ", "A", "N", "D", " ",
      "i", ".", "q", "u", "a", "r", "t", "e", "r", " ", "=", " ", "u", ".", "q", "u",
      "a", "r", "t", "e", "r", "\n", " ", " ", " ", " ", "G", "R", "O", "U", "P", " ",
      "B", "Y", " ", "i", ".", "s", "t", "a", "t", "e", ",", " ", "i", ".", "d", "i",
      "s", "t", "r", "i", "c", "t", "\n", " ", " ", " ", " ", "H", "A", "V", "I", "N",
      "G", " ", "u", "s", "e", "r", "s", " ", "<", " ", "5", "0", "0", "0", " ", "A",
      "N", "D", " ", "i", "n", "s", "u", "r", "a", "n", "c", "e", "_", "a", "m", "t",
      " ", ">", " ", "1", "0", "0", "0", "0", "0", "\n", " ", " ", " ", " ", "O", "R",
      "D", "E", "R", " ", "B", "Y", " ", "p", "r", "e", "m", "i", "u", "m", "_", "i",
      "n", "d", "e", "x", " ", "D", "E", "S", "C", "\n", " ", " ", " ", " ", "L", "I",
      "M", "I", "T", " ", "1", "0", ";", "\n", " ", " ", " ", " ">>

\* growth_query, src/st2.py:183-188
growth_query ==
    <<"\n", " ", " ", " ", " ", "S", "E", "L", "E", "C", "T", " ", "d", "i", "s", "t",
      "r", "i", "c", "t", ",", " ", "y", "e", "a", "r", ",", " ", "q", "u", "a", "r",
      "t", "e", "r", ",", " ", "S", "U", "M", "(", "a", "m", "o", "u", "n", "t", ")",
      " ", "A", "S", " ", "t", "o", "t", "a", "l", "_", "i", "n", "s", "u", "r", "a",
      "n", "c", "e", "\n", " ", " ", " ", " ", "F", "R", "O", "M", " ", "m", "a", "p",
      "_", "i", "n", "s", "u", "r", "a", "n", "c", "e", "\n", " ", " ", " ", " ", "G",
      "R", "O", "U", "P", " ", "B", "Y", " ", "d", "i", "s", "t", "r", "i", "c", "t",
      ",", " ", "y", "e", "a", "r", ",", " ", "q", "u", "a", "r", "t", "e", "r", "\n",
      " ", " ", " ", " ", "O", "R", "D", "E", "R", " ", "B", "Y", " ", "d", "i", "s",
      "t", "r", "i", "c", "t", ",", " ", "y", "e", "a", "r", ",", " ", "q", "u", "a",
      "r", "t", "e", "r", "\n", " ", " ", " ", " ">>

\* concentration_query, src/st2.py:193-201
concentration_query ==
    <<"\n", " ", " ", " ", " ", "S", "E", "L", "E", "C", "T", " ", "s", "t", "a", "t",
      "e", ",", " ", "S", "U", "M", "(", "t", "r", "a", "n", "s", "a", "c", "t", "i",
      "o", "n", "_", "a", "m", "o", "u", "n", "t", ")", " ", "A", "S", " ", "t", "o",
      "t", "a", "l", "_", "a", "m", "o", "u", "n", "t", ",", "\n", " ", " ", " ", " ",
      " ", " ", " ", " ", " ", " ", " ", "C", "O", "U", "N", "T", "(", "D", "I", "S",
      "T", "I", "N", "C", "T", " ", "t", "r", "a", "n", "s", "a", "c", "t", "i", "o",
      "n", "_", "t", "y", "p", "e", ")", " ", "A", "S", " ", "t", "y", "p", "e", "_",
      "c", "o", "u", "n", "t", "\n", " ", " ", " ", " ", "F", "R", "O", "M", " ", "a",
      "g", "g", "r", "e", "g", "a", "t", "e", "d", "_", "t", "r", "a", "n", "s", "a",
      "c", "t", "i", "o", "n", "\n", " ", " ", " ", " ", "G", "R", "O", "U", "P", " ",
      "B", "Y", " ", "s", "t", "a", "t", "e", "\n", " ", " ", " ", " ", "H", "A", "V",
      "I", "N", "G", " ", "t", "y", "p", "e", "_", "c", "o", "u", "n", "t", " ", "<",
      "=", " ", "2", "\n", " ", " ", " ", " ", "O", "R", "D", "E", "R", " ", "B", "Y",
      " ", "t", "o", "t", "a", "l", "_", "a", "m", "o", "u", "n", "t", " ", "D", "E",
      "S", "C", "\n", " ", " ", " ", " ", "L", "I", "M", "I", "T", " ", "1", "0", ";",
      "\n", " ", " ", " ", " ">>

\* app_growth_query, src/st2.py:206-213
app_growth_query ==
    <<"\n", " ", " ", " ", " ", "S", "E", "L", "E", "C", "T", " ", "d", "i", "s", "t",
      "r", "i", "c", "t", ",", " ", "y", "e", "a", "r", ",", " ", "q", "u", "a", "r",
      "t", "e", "r", ",", " ", "S", "U", "M", "(", "a", "p", "p", "_", "o", "p", "e",
      "n", "s", ")", " ", "A", "S", " ", "t", "o", "t", "a", "l", "_", "o", "p", "e",
      "n", "s", "\n", " ", " ", " ", " ", "F", "R", "O", "M", " ", "m", "a", "p", "_",
      "u", "s", "e", "r", "\n", " ", " ", " ", " ", "G", "R", "O", "U", "P", " ", "B",
      "Y", " ", "d", "i", "s", "t", "r", "i", "c", "t", ",", " ", "y", "e", "a", "r",
      ",", " ", "q", "u", "a", "r", "t", "e", "r", "\n", " ", " ", " ", " ", "H", "A",
      "V", "I", "N", "G", " ", "t", "o", "t", "a", "l", "_", "o", "p", "e", "n", "s",
      " ", ">", " ", "5", "0", "0", "0", "0", "\n", " ", " ", " ", " ", "O", "R", "D",
      "E", "R", " ", "B", "Y", " ", "t", "o", "t", "a", "l", "_", "o", "p", "e", "n",
      "s", " ", "D", "E", "S", "C", "\n", " ", " ", " ", " ", "L", "I", "M", "I", "T",
      " ", "1", "0", ";", "\n", " ", " ", " ", " ">>

\* ins_tx_query, src/st2.py:218-227
ins_tx_query ==
    <<"\n", " ", " ", " ", " ", "S", "E", "L", "E", "C", "T", " ", "i", ".", "s", "t",
      "a", "t", "e", ",", " ", "S", "U", "M", "(", "i", ".", "a", "m", "o", "u", "n",
      "t", ")", " ", "A", "S", " ", "i", "n", "s", "u", "r", "a", "n", "c", "e", "_",
      "t", "o", "t", "a", "l", ",", " ", "S", "U", "M", "(", "t", ".", "t", "r", "a",
      "n", "s", "a", "c", "t", "i", "o", "n", "_", "a", "m", "o", "u", "n", "t", ")",
      " ", "A", "S", " ", "t", "x", "n", "_", "t", "o", "t", "a", "l", ",", "\n", " ",
      " ", " ", " ", " ", " ", " ", " ", " ", " ", " ", "R", "O", "U", "N", "D", "(",
      "S", "U", "M", "(", "i", ".", "a", "m", "o", "u", "n", "t", ")", "/", "N", "U",
      "L", "L", "I", "F", "(", "S", "U", "M", "(", "t", ".", "t", "r", "a", "n", "s",
      "a", "c", "t", "i", "o", "n", "_", "a", "m", "o", "u", "n", "t", ")", ",", " ",
      "0", ")", ",", " ", "2", ")", " ", "A", "S", " ", "i", "n", "s", "u", "r", "a",
      "n", "c", "e", "_", "r", "a", "t", "i", "o", "\n", " ", " ", " ", " ", "F", "R",
      "O", "M", " ", "m", "a", "p", "_", "i", "n", "s", "u", "r", "a", "n", "c", "e",
      " ", "i", "\n", " ", " ", " ", " ", "J", "O", "I", "N", " ", "a", "g", "g", "r",
      "e", "g", "a", "t", "e", "d", "_", "t", "r", "a", "n", "s", "a", "c", "t", "i",
      "o", "n", " ", "t", " ", "O", "N", " ", "i", ".", "s", "t", "a", "t", "e", " ",
      "=", " ", "t", ".", "s", "t", "a", "t", "e", " ", "A", "N", "D", " ", "i", ".",
      "y", "e", "a", "r", " ", "=", " ", "t", ".", "y", "e", "a", "r", " ", "A", "N",
      "D", " ", "i", ".", "q", "u", "a", "r", "t", "e", "r", " ", "=", " ", "t", ".",
      "q", "u", "a", "r", "t", "e", "r", "\n", " ", " ", " ", " ", "G", "R", "O", "U",
      "P", " ", "B", "Y", " ", "i", ".", "s", "t", "a", "t", "e", "\n", " ", " ", " ",
      " ", "H", "A", "V", "I", "N", "G", " ", "i", "n", "s", "u", "r", "a", "n", "c",
      "e", "_", "r", "a", "t", "i", "o", " ", ">", " ", "0", ".", "5", "\n", " ", " ",
      " ", " ", "O", "R", "D", "E", "R", " ", "B", "Y", " ", "i", "n", "s", "u", "r",
      "a", "n", "c", "e", "_", "r", "a", "t", "i", "o", " ", "D", "E", "S", "C", "\n",
      " ", " ", " ", " ", "L", "I", "M", "I", "T", " ", "1", "0", ";", "\n", " ", " ",
      " ", " ">>

\* active_query, src/st2.py:232-245
active_query ==
    <<"\n", " ", " ", " ", " ", "S", "E", "L", "E", "C", "T", " ", "m", "u", ".", "d",
      "i", "s", "t", "r", "i", "c", "t", ",", "\n", " ", " ", " ", " ", " ", " ", " ",
      "S", "U", "M", "(", "m", "u", ".", "r", "e", "g", "i", "s", "t", "e", "r", "e",
      "d", "_", "u", "s", "e", "r", "s", ")", " ", "A", "S", " ", "u", "s", "e", "r",
      "s", ",", "\n", " ", " ", " ", " ", " ", " ", " ", "S", "U", "M", "(", "m", "u",
      ".", "a", "p", "p", "_", "o", "p", "e", "n", "s", ")", " ", "A", "S", " ", "o",
      "p", "e", "n", "s", ",", "\n", " ", " ", " ", " ", " ", " ", " ", "S", "U", "M",
      "(", "m", "m", ".", "c", "o", "u", "n", "t", ")", " ", "A", "S", " ", "t", "x",
      "n", "s", ",", "\n", " ", " ", " ", " ", " ", " ", " ", "S", "U", "M", "(", "m",
      "i", ".", "c", "o", "u", "n", "t", ")", " ", "A", "S", " ", "i", "n", "s", "u",
      "r", "a", "n", "c", "e", "s", "\n", " ", " ", " ", " ", "F", "R", "O", "M", " ",
      "m", "a", "p", "_", "u", "s", "e", "r", " ", "m", "u", "\n", " ", " ", " ", " ",
      "J", "O", "I", "N", " ", "m", "a", "p", "_", "m", "a", "p", " ", "m", "m", " ",
      "O", "N", " ", "m", "u", ".", "s", "t", "a", "t", "e", " ", "=", " ", "m", "m",
      ".", "s", "t", "a", "t", "e", " ", "A", "N", "D", " ", "m", "u", ".", "d", "i",
      "s", "t", "r", "i", "c", "t", " ", "=", " ", "m", "m", ".", "d", "i", "s", "t",
      "r", "i", "c", "t", " ", "A", "N", "D", " ", "m", "u", ".", "y", "e", "a", "r",
      " ", "=", " ", "m", "m", ".", "y", "e", "a", "r", " ", "A", "N", "D", " ", "m",
      "u", ".", "q", "u", "a", "r", "t", "e", "r", " ", "=", " ", "m", "m", ".", "q",
      "u", "a", "r", "t", "e", "r", "\n", " ", " ", " ", " ", "J", "O", "I", "N", " ",
      "m", "a", "p", "_", "i", "n", "s", "u", "r", "a", "n", "c", "e", " ", "m", "i",
      " ", "O", "N", " ", "m", "u", ".", "s", "t", "a", "t", "e", " ", "=", " ", "m",
      "i", ".", "s", "t", "a", "t", "e", " ", "A", "N", "D", " ", "m", "u", ".", "d",
      "i", "s", "t", "r", "i", "c", "t", " ", "=", " ", "m", "i", ".", "d", "i", "s",
      "t", "r", "i", "c", "t", " ", "A", "N", "D", " ", "m", "u", ".", "y", "e", "a",
      "r", " ", "=", " ", "m", "i", ".", "y", "e", "a", "r", " ", "A", "N", "D", " ",
      "m", "u", ".", "q", "u", "a", "r", "t", "e", "r", " ", "=", " ", "m", "i", ".",
      "q", "u", "a", "r", "t", "e", "r", "\n", " ", " ", " ", " ", "G", "R", "O", "U",
      "P", " ", "B", "Y", " ", "m", "u", ".", "d", "i", "s", "t", "r", "i", "c", "t",
      "\n", " ", " ", " ", " ", "O", "R", "D", "E", "R", " ", "B", "Y", " ", "t", "x",
      "n", "s", " ", "D", "E", "S", "C", ",", " ", "o", "p", "e", "n", "s", " ", "D",
      "E", "S", "C", "\n", " ", " ", " ", " ", "L", "I", "M", "I", "T", " ", "1", "0",
      ";", "\n", "\n", " ", " ", " ", " ">>


(***************************************************************************)
(* Text helpers                                                            *)
(***************************************************************************)
DigitChar == <<"0", "1", "2", "3", "4", "5", "6", "7", "8", "9">>

\* str(n) for a non-negative integer, as the f-string formats it
RECURSIVE Str(_)
Str(n) ==
    IF n < 10 THEN <<DigitChar[n + 1]>>
    ELSE Str(n \div 10) \o <<DigitChar[(n % 10) + 1]>>

\* sep.join(list)
RECURSIVE Join(_, _)
Join(sep, list) ==
    IF list = <<>> THEN <<>>
    ELSE IF Len(list) = 1 THEN list[1]
    ELSE list[1] \o sep \o Join(sep, Tail(list))

\* Python truthiness of a str ("" is false)
TruthyText(t) == t # <<>>

\* Python truthiness of a selectbox value: "" (modelled 0) is false, an int
\* option is true unless it is 0
TruthyOption(n) == n # 0

\* needle occurs in text starting at position i
OccursAt(needle, text, i) ==
    /\ i >= 1
    /\ i + Len(needle) - 1 <= Len(text)
    /\ SubSeq(text, i, i + Len(needle) - 1) = needle

Contains(text, needle) ==
    \E i \in 1..(Len(text) + 1) : OccursAt(needle, text, i)

Occurrences(text, needle) ==
    Cardinality({i \in 1..Len(text) : OccursAt(needle, text, i)})

(***************************************************************************)
(* Sidebar filters (src/st2.py:19-23)                                      *)
(***************************************************************************)
YearOptions == <<0, 2018, 2019, 2020, 2021, 2022, 2023>>
QuarterOptions == <<0, 1, 2, 3, 4>>

Karnataka == <<"K", "a", "r", "n", "a", "t", "a", "k", "a">>
\* a state text that itself holds a single quote
Quoted == <<"D", "'", "K">>
\* the free-text inputs tried; <<>> is the empty input
StateInputs == {<<>>, Karnataka, Quoted}

Range(seq) == {seq[i] : i \in DOMAIN seq}

FilterInit ==
    /\ state \in StateInputs
    /\ year \in Range(YearOptions)
    /\ quarter \in Range(QuarterOptions)

(***************************************************************************)
(* add_filters (src/st2.py:25-35)                                          *)
(***************************************************************************)
WhereKw == <<" ", "W", "H", "E", "R", "E", " ">>
AndKw == <<" ", "A", "N", "D", " ">>
Apostrophe == <<"'">>
StateEq == <<"s", "t", "a", "t", "e", " ", "=", " ">>
YearEq == <<"y", "e", "a", "r", " ", "=", " ">>
QuarterEq == <<"q", "u", "a", "r", "t", "e", "r", " ", "=", " ">>

\* the state value interpolated without the quotes
StateConditionUnquoted(alias, s) == alias \o StateEq \o s

\* f"{alias}state = '{state}'"
StateCondition(alias, s) == alias \o StateEq \o Apostrophe \o s \o Apostrophe
\* f"{alias}year = {year}"
YearCondition(alias, y) == alias \o YearEq \o Str(y)
\* f"{alias}quarter = {quarter}"
QuarterCondition(alias, q) == alias \o QuarterEq \o Str(q)

\* a list object shared between calls instead of a fresh one
SharedConditions(previous) == previous

\* conditions = []  : every call starts from a fresh empty list
NewConditions(previous) == <<>>

\* the year test placed before the state test
BuildConditionsYearFirst(start, alias, s, y, q) ==
    LET c1 == IF TruthyOption(y) THEN Append(start, YearCondition(alias, y)) ELSE start
        c2 == IF TruthyText(s) THEN Append(c1, StateCondition(alias, s)) ELSE c1
        c3 == IF TruthyOption(q) THEN Append(c2, QuarterCondition(alias, q)) ELSE c2
    IN  c3

\* the tests chained with elif: only the first set field contributes
BuildConditionsElif(start, alias, s, y, q) ==
    IF TruthyText(s) THEN Append(start, StateCondition(alias, s))
    ELSE IF TruthyOption(y) THEN Append(start, YearCondition(alias, y))
    ELSE IF TruthyOption(q) THEN Append(start, QuarterCondition(alias, q))
    ELSE start

\* the three guarded appends, in source order
BuildConditions(start, alias, s, y, q) ==
    LET c1 == IF TruthyText(s) THEN Append(start, StateCondition(alias, s)) ELSE start
        c2 == IF TruthyOption(y) THEN Append(c1, YearCondition(alias, y)) ELSE c1
        c3 == IF TruthyOption(q) THEN Append(c2, QuarterCondition(alias, q)) ELSE c2
    IN  c3

\* the clause appended without the `if conditions` test
AppendWhereAlways(query, conds) == query \o WhereKw \o Join(AndKw, conds)

\* if conditions: query += " WHERE " + " AND ".join(conditions)
AppendWhere(query, conds) ==
    IF conds # <<>> THEN query \o WhereKw \o Join(AndKw, conds) ELSE query

\* the list add_filters holds when it returns, given the list object of the
\* previous call
ConditionsOfCall(previous, alias, s, y, q) ==
    BuildConditions(NewConditions(previous), alias, s, y, q)

\* the value add_filters(query, alias) returns when the globals hold s, y, q
add_filters(query, alias, s, y, q) ==
    AppendWhere(query, ConditionsOfCall(<<>>, alias, s, y, q))

(***************************************************************************)
(* Calls of add_filters on bounded inputs                                  *)
(***************************************************************************)
MaxCalls == 2

\* the example template of the specification: base_query up to its GROUP BY
ExampleTemplate == SubSeq(base_query, 1, 96)

ComposeTemplates == {ExampleTemplate, base_query, pin_query}

\* "", "i." (src/st2.py:168-172)
Aliases == {<<>>, <<"i", ".">>}

Unbound == <<"<unbound>">>

ReportVars ==
    {"base_query", "surge_query", "loyalty_query", "drop_query",
     "insurance_eff_query", "pin_query", "diversity_query",
     "high_insurance_query", "growth_query", "concentration_query",
     "app_growth_query", "ins_tx_query", "active_query",
     "df_tx", "df_surge", "df_loyalty", "df_drop", "df_eff", "df_pin",
     "df_variety", "df_premium", "df_growth", "df_concentration",
     "df_app_growth", "df_ins_tx", "df_active"}

RenderInit ==
    /\ env = [v \in ReportVars |-> Unbound]
    /\ inflight = {}
    /\ issued = <<>>
    /\ rendered = <<>>

ComposeInit ==
    /\ conditions = <<>>
    /\ calls = <<>>

InitCompose ==
    /\ FilterInit
    /\ ComposeInit
    /\ RenderInit
    /\ pc = [at |-> "compose", report |-> 0]

\* one call add_filters(query, alias): the caller's string is passed by
\* reference and str is immutable, so the caller still holds `query` afterwards
CallAddFilters(query, alias) ==
    /\ pc.at = "compose"
    /\ Len(calls) < MaxCalls
    /\ conditions' = ConditionsOfCall(conditions, alias, state, year, quarter)
    /\ calls' = Append(calls, [query |-> query, alias |-> alias,
                               conditions |-> conditions',
                               result |-> AppendWhere(query, conditions'),
                               held |-> query])
    /\ UNCHANGED <<filterVars, renderVars>>

NextCompose ==
    \E query \in ComposeTemplates, alias \in Aliases : CallAddFilters(query, alias)

SpecCompose == InitCompose /\ [][NextCompose]_vars

(***************************************************************************)
(* Report catalogue as the script lays it out (src/st2.py:41-247): for     *)
(* each report the variable its SQL text is assigned to, the variable the  *)
(* result is bound to, how much of the table is displayed and whether a    *)
(* bar chart follows.                                                      *)
(***************************************************************************)
Catalogue ==
    << [qvar |-> "base_query", template |-> base_query, dfvar |-> "df_tx",
        view |-> "all", chart |-> "barplot"],
       [qvar |-> "surge_query", template |-> surge_query, dfvar |-> "df_surge",
        view |-> "all", chart |-> "none"],
       [qvar |-> "loyalty_query", template |-> loyalty_query, dfvar |-> "df_loyalty",
        view |-> "all", chart |-> "barplot head(10)"],
       [qvar |-> "drop_query", template |-> drop_query, dfvar |-> "df_drop",
        view |-> "all", chart |-> "none"],
       [qvar |-> "insurance_eff_query", template |-> insurance_eff_query, dfvar |-> "df_eff",
        view |-> "all", chart |-> "barplot"],
       [qvar |-> "pin_query", template |-> pin_query, dfvar |-> "df_pin",
        view |-> "all", chart |-> "barplot"],
       [qvar |-> "diversity_query", template |-> diversity_query, dfvar |-> "df_variety",
        view |-> "all", chart |-> "barplot"],
       [qvar |-> "high_insurance_query", template |-> high_insurance_query, dfvar |-> "df_premium",
        view |-> "all", chart |-> "none"],
       [qvar |-> "growth_query", template |-> growth_query, dfvar |-> "df_growth",
        view |-> "head(20)", chart |-> "none"],
       [qvar |-> "concentration_query", template |-> concentration_query, dfvar |-> "df_concentration",
        view |-> "all", chart |-> "none"],
       [qvar |-> "app_growth_query", template |-> app_growth_query, dfvar |-> "df_app_growth",
        view |-> "all", chart |-> "none"],
       [qvar |-> "ins_tx_query", template |-> ins_tx_query, dfvar |-> "df_ins_tx",
        view |-> "all", chart |-> "none"],
       [qvar |-> "active_query", template |-> active_query, dfvar |-> "df_active",
        view |-> "all", chart |-> "none"] >>

NumReports == Len(Catalogue)
Reports == 1..NumReports

\* the variable report i hands to pd.read_sql is the one of the report above it
ReadVarOfPreviousBlock(i) == IF i > 1 THEN Catalogue[i - 1].qvar ELSE Catalogue[i].qvar

\* the variable report i hands to pd.read_sql: the one it has just assigned
ReadVar(i) == Catalogue[i].qvar

\* pd.read_sql(query, engine) on success: the store is only read, so the table
\* is a function of the query text alone
ResultTable(query) == <<"ResultTable", query>>

Done == [at |-> "done", report |-> 0]
Aborted(i) == [at |-> "aborted", report |-> i]
Idle == [at |-> "idle", report |-> 0]

\* the statement after report i's block
NextPc(i) == IF i < NumReports THEN [at |-> "issue", report |-> i + 1] ELSE Done

\* pd.read_sql returns at once, leaving the query running
AfterIssueAsync(i) == NextPc(i)

\* pd.read_sql blocks: the script waits inside the call
AfterIssue(i) == [at |-> "wait", report |-> i]

\* the exception is caught and the script goes on with the next report
AfterRaiseCaught(i) == NextPc(i)

\* nothing catches the exception pd.read_sql raises: the script run ends
AfterRaise(i) == Aborted(i)

\* the query text report i sent
QuerySent(i) ==
    LET k == CHOOSE k \in DOMAIN issued : issued[k].report = i IN issued[k].query

\* <x>_query = "..." ; df = pd.read_sql(<x>_query, engine) is entered
IssueEffect(i) ==
    LET assigned == [env EXCEPT ![Catalogue[i].qvar] = Catalogue[i].template] IN
    /\ env' = assigned
    /\ issued' = Append(issued, [report |-> i, query |-> assigned[ReadVar(i)]])
    /\ inflight' = inflight \cup {i}

\* pd.read_sql returns the table, which is bound to the report's df variable
ReturnEffect(i) ==
    /\ i \in inflight
    /\ env' = [env EXCEPT ![Catalogue[i].dfvar] = ResultTable(QuerySent(i))]
    /\ inflight' = inflight \ {i}
    /\ UNCHANGED <<issued, rendered>>

\* pd.read_sql raises; the page shows the exception in place of the section
RaiseEffect(i) ==
    /\ i \in inflight
    /\ inflight' = inflight \ {i}
    /\ rendered' = Append(rendered, [report |-> i, kind |-> "exception",
                                     table |-> Unbound, view |-> "none", chart |-> "none"])
    /\ UNCHANGED <<env, issued>>

\* st.dataframe(df) and, where the block has one, the bar chart
ShowEffect(i) ==
    /\ rendered' = Append(rendered, [report |-> i, kind |-> "dataframe",
                                     table |-> env[Catalogue[i].dfvar],
                                     view |-> Catalogue[i].view,
                                     chart |-> Catalogue[i].chart])
    /\ UNCHANGED <<env, issued, inflight>>

(***************************************************************************)
(* The render pass: one run of the script, top to bottom                   *)
(***************************************************************************)
Init ==
    /\ FilterInit
    /\ ComposeInit
    /\ RenderInit
    /\ pc = [at |-> "issue", report |-> 1]

Issue(i) ==
    /\ pc = [at |-> "issue", report |-> i]
    /\ IssueEffect(i)
    /\ pc' = AfterIssue(i)
    /\ UNCHANGED <<filterVars, composeVars, rendered>>

Returns(i) ==
    /\ pc = AfterIssue(i)
    /\ ReturnEffect(i)
    /\ pc' = [at |-> "show", report |-> i]
    /\ UNCHANGED <<filterVars, composeVars>>

Raises(i) ==
    /\ pc = AfterIssue(i)
    /\ RaiseEffect(i)
    /\ pc' = AfterRaise(i)
    /\ UNCHANGED <<filterVars, composeVars>>

Show(i) ==
    /\ pc = [at |-> "show", report |-> i]
    /\ ShowEffect(i)
    /\ pc' = NextPc(i)
    /\ UNCHANGED <<filterVars, composeVars>>

Next ==
    \E i \in Reports :
        \/ Issue(i)
        \/ Returns(i)
        \/ Raises(i)
        \/ Show(i)

Spec == Init /\ [][Next]_vars

(***************************************************************************)
(* The report blocks run one at a time in an arbitrary order, any subset   *)
(* of them, each at most once                                              *)
(***************************************************************************)
MaxRun == 2

Started == {issued[k].report : k \in DOMAIN issued}

InitAnyOrder ==
    /\ FilterInit
    /\ ComposeInit
    /\ RenderInit
    /\ pc = Idle

Pick(i) ==
    /\ pc = Idle
    /\ i \notin Started
    /\ Cardinality(Started) < MaxRun
    /\ pc' = [at |-> "issue", report |-> i]
    /\ UNCHANGED <<filterVars, composeVars, env, inflight, issued, rendered>>

ShowThenIdle(i) ==
    /\ pc = [at |-> "show", report |-> i]
    /\ ShowEffect(i)
    /\ pc' = Idle
    /\ UNCHANGED <<filterVars, composeVars>>

NextAnyOrder ==
    \E i \in Reports :
        \/ Pick(i)
        \/ Issue(i)
        \/ Returns(i)
        \/ ShowThenIdle(i)

SpecAnyOrder == InitAnyOrder /\ [][NextAnyOrder]_vars

(***************************************************************************)
(* Properties of add_filters, checked under SpecCompose                    *)
(***************************************************************************)
NoFilterSet == state = <<>> /\ year = 0 /\ quarter = 0

\* number of filter fields that are set
FieldsSet(s, y, q) ==
    (IF s # <<>> THEN 1 ELSE 0) + (IF y # 0 THEN 1 ELSE 0) + (IF q # 0 THEN 1 ELSE 0)

\* the text after the first n characters
Suffix(text, n) == SubSeq(text, n + 1, Len(text))

\* C1: with no filter set (state empty, year unset, quarter unset), every call
\* of add_filters returns exactly the template it was given.
C1_ComposerIdentity ==
    NoFilterSet => \A k \in DOMAIN calls : calls[k].result = calls[k].query

C1_Witness ==
    NoFilterSet /\ Len(calls) >= 1 /\ calls[1].alias # <<>>

\* the conditions the contract lists for a FilterSet: one per set field, in
\* the order state, year, quarter
ContractConditions(alias, s, y, q) ==
    LET fields == << [on |-> s # <<>>, text |-> alias \o StateEq \o Apostrophe \o s \o Apostrophe],
                     [on |-> y # 0, text |-> alias \o YearEq \o Str(y)],
                     [on |-> q # 0, text |-> alias \o QuarterEq \o Str(q)] >>
        kept == SelectSeq(fields, LAMBDA f : f.on)
    IN  [i \in DOMAIN kept |-> kept[i].text]

\* C2: with k >= 1 fields set, add_filters returns the template followed by
\* exactly one " WHERE " and exactly k conditions "<alias><field> = <literal>",
\* one per set field in the order state, year, quarter, joined by " AND ".
C2_WhereClause ==
    \A n \in DOMAIN calls :
        LET c == calls[n]
            k == FieldsSet(state, year, quarter)
            expected == ContractConditions(c.alias, state, year, quarter)
            tail == Suffix(c.result, Len(c.query))
        IN  k >= 1 =>
              /\ SubSeq(c.result, 1, Len(c.query)) = c.query
              /\ SubSeq(tail, 1, Len(WhereKw)) = WhereKw
              /\ Occurrences(tail, WhereKw) = 1
              /\ Len(expected) = k
              /\ c.conditions = expected
              /\ Suffix(tail, Len(WhereKw)) = Join(AndKw, expected)
              /\ Occurrences(tail, AndKw) = k - 1

C2_Witness ==
    /\ FieldsSet(state, year, quarter) = 3
    /\ \E n \in DOMAIN calls : calls[n].alias # <<>> /\ calls[n].query = pin_query

\* the composed query the specification's example expects
ExampleExpected ==
    <<"S", "E", "L", "E", "C", "T", " ", "s", "t", "a", "t", "e", ",", " ", "S", "U",
      "M", "(", "t", "r", "a", "n", "s", "a", "c", "t", "i", "o", "n", "_", "a", "m",
      "o", "u", "n", "t", ")", " ", "A", "S", " ", "t", "o", "t", "a", "l", "_", "a",
      "m", "o", "u", "n", "t", " ", "F", "R", "O", "M", " ", "a", "g", "g", "r", "e",
      "g", "a", "t", "e", "d", "_", "t", "r", "a", "n", "s", "a", "c", "t", "i", "o",
      "n", " ", "W", "H", "E", "R", "E", " ", "s", "t", "a", "t", "e", " ", "=", " ",
      "'", "K", "a", "r", "n", "a", "t", "a", "k", "a", "'", " ", "A", "N", "D", " ",
      "y", "e", "a", "r", " ", "=", " ", "2", "0", "2", "1", " ", "G", "R", "O", "U",
      "P", " ", "B", "Y", " ", "s", "t", "a", "t", "e">>

\* C3: for {state: "Karnataka", year: 2021, quarter: unset} and the example
\* template, the composed query has the WHERE clause before the GROUP BY.
C3_ExampleComposed ==
    (state = Karnataka /\ year = 2021 /\ quarter = 0) =>
        \A n \in DOMAIN calls :
            (calls[n].query = ExampleTemplate /\ calls[n].alias = <<>>)
                => calls[n].result = ExampleExpected

\* the number a decimal numeral denotes
DigitOf(ch) == (CHOOSE d \in DOMAIN DigitChar : DigitChar[d] = ch) - 1

RECURSIVE NumeralValue(_)
NumeralValue(text) ==
    IF Len(text) = 1 THEN DigitOf(text[1])
    ELSE 10 * NumeralValue(SubSeq(text, 1, Len(text) - 1)) + DigitOf(text[Len(text)])

IsNumeral(text) ==
    /\ Len(text) >= 1
    /\ \A j \in DOMAIN text : text[j] \in Range(DigitChar)

\* the literal of a numeric condition: what follows "<alias><field> = "
Literal(cond, alias, fieldEq) == Suffix(cond, Len(alias) + Len(fieldEq))

\* C4: in every composed query the state value appears enclosed in single
\* quotes, and the year and quarter values appear as bare numerals.
C4_Quoting ==
    \A n \in DOMAIN calls :
        LET c == calls[n]
            tail == Suffix(c.result, Len(c.query))
            iy == (IF state # <<>> THEN 1 ELSE 0) + 1
            iq == iy + (IF year # 0 THEN 1 ELSE 0)
        IN  /\ state # <<>> =>
                /\ Contains(tail, c.alias \o StateEq \o Apostrophe \o state \o Apostrophe)
                /\ c.conditions[1][Len(c.alias) + Len(StateEq) + 1] = "'"
                /\ c.conditions[1][Len(c.conditions[1])] = "'"
            /\ year # 0 =>
                /\ IsNumeral(Literal(c.conditions[iy], c.alias, YearEq))
                /\ NumeralValue(Literal(c.conditions[iy], c.alias, YearEq)) = year
                /\ ~Contains(tail, YearEq \o Apostrophe)
            /\ quarter # 0 =>
                /\ IsNumeral(Literal(c.conditions[iq], c.alias, QuarterEq))
                /\ NumeralValue(Literal(c.conditions[iq], c.alias, QuarterEq)) = quarter
                /\ ~Contains(tail, QuarterEq \o Apostrophe)

C4_Witness ==
    /\ state = Quoted /\ year = 2018 /\ quarter = 4
    /\ Len(calls) >= 1

\* C5: for FilterSets F1, F2 where F2 sets every field F1 sets, with the same
\* values, the query composed under F2 contains every condition composed
\* under F1 and exactly one more condition per newly set field.
C5_Monotonic ==
    \A n \in DOMAIN calls :
        \A s1 \in {<<>>, state}, y1 \in {0, year}, q1 \in {0, quarter} :
            LET c == calls[n]
                c1 == BuildConditions(<<>>, c.alias, s1, y1, q1)
                newly == FieldsSet(state, year, quarter) - FieldsSet(s1, y1, q1)
            IN  /\ \A j \in DOMAIN c1 :
                      /\ c1[j] \in Range(c.conditions)
                      /\ Contains(Suffix(c.result, Len(c.query)), c1[j])
                /\ Len(c.conditions) = Len(c1) + newly

C5_Witness ==
    /\ state = Karnataka /\ year = 0 /\ quarter = 3
    /\ Len(calls) >= 1

\* C8: two calls of add_filters with the same template and alias under the
\* same FilterSet return the same string, and a call changes neither the
\* FilterSet nor the template the caller passed.
C8_Deterministic ==
    /\ [](\A j, k \in DOMAIN calls :
            /\ calls[j].held = calls[j].query
            /\ (calls[j].query = calls[k].query /\ calls[j].alias = calls[k].alias)
                  => calls[j].result = calls[k].result)
    /\ [][calls' # calls => UNCHANGED filterVars]_vars

C8_Witness ==
    /\ ~NoFilterSet
    /\ Len(calls) >= 2
    /\ calls[1].query = calls[2].query
    /\ calls[1].alias = calls[2].alias

(***************************************************************************)
(* Properties of the render pass                                           *)
(***************************************************************************)
\* the section report j shows when its query succeeds
ExpectedSection(j) ==
    [report |-> j, kind |-> "dataframe",
     table |-> ResultTable(Catalogue[j].template),
     view |-> Catalogue[j].view, chart |-> Catalogue[j].chart]

\* the query carries a condition for every filter that is set
CarriesFilters(query) ==
    /\ state # <<>> => Contains(query, StateEq \o Apostrophe \o state \o Apostrophe)
    /\ year # 0 => Contains(query, YearEq \o Str(year))
    /\ quarter # 0 => Contains(query, QuarterEq \o Str(quarter))

\* C6: all but four reports of the catalogue send the store a query that
\* carries the condition of every filter that is set.
C6_ReportsUseFilters ==
    pc = Done =>
        Cardinality({i \in Reports : CarriesFilters(QuerySent(i))}) >= NumReports - 4

C9_ReportsIndependent ==
    /\ \A k \in DOMAIN issued : issued[k].query = Catalogue[issued[k].report].template
    /\ \A k \in DOMAIN rendered : rendered[k] = ExpectedSection(rendered[k].report)

C9_Witness ==
    /\ Len(rendered) = 2
    /\ rendered[1].report = 7
    /\ rendered[2].report = 2

\* C10: at most one query is in flight; queries are issued in catalogue order,
\* and one is issued only after every earlier report's query has returned.
C10_OneQueryAtATime ==
    /\ Cardinality(inflight) <= 1
    /\ \A k \in DOMAIN issued : issued[k].report = k
    /\ \A i \in inflight :
          /\ i = Len(issued)
          /\ \A j \in 1..(i - 1) : env[Catalogue[j].dfvar] = ResultTable(Catalogue[j].template)

C10_Witness ==
    /\ inflight = {6}
    /\ pc = [at |-> "wait", report |-> 6]
    /\ Len(rendered) = 5

====
